---------------------------- MODULE Spec2Model ----------------------------
(***************************************************************************)
(* Device Status Engine of the network dashboard server                    *)
(* (src/unnamed/part_000): the devices / logs / settings tables, the agent *)
(* report handler, the periodic prober and the device_update events.       *)
(*                                                                         *)
(* Node runs every handler to completion; the only suspension point is     *)
(* the `await ping.promise.probe(...)` of the prober callback.  So each    *)
(* HTTP handler is one action, and a prober cycle is a Tick action (the    *)
(* callback up to its first await) followed by one ProbeSettle action per  *)
(* awaited probe (the continuation up to the next await).                  *)
(*                                                                         *)
(* Timestamps are whole seconds on a model clock; `toISOString()` followed *)
(* by `new Date(...)` returns the same instant, so a stored timestamp is   *)
(* kept as the number it denotes.  NULL is the SQL NULL of a DATETIME      *)
(* column; the clock starts above it.                                      *)
(***************************************************************************)
EXTENDS Integers, Sequences, FiniteSets, TLC

VARIABLES
    devices,      \* table devices: id -> row
    nextId,       \* AUTOINCREMENT counter of devices
    logs,         \* table logs, in insertion order
    nextLogId,    \* AUTOINCREMENT counter of logs
    settings,     \* table settings: key -> value (text)
    cycles,       \* prober callbacks suspended in a probe, oldest first
    events,       \* device_update events emitted so far, in order
    writes,       \* history: UPDATEs that changed a devices row, in order
    request,      \* history: last /api/agent/report request and its answer
    probed,       \* history: last probe that settled and how
    reply,        \* history: last /api/logs/:deviceId query and its answer
    clock,        \* wall clock, seconds
    nOps          \* handler invocations, timer ticks and clock advances so far

vars == <<devices, nextId, logs, nextLogId, settings, cycles, events, writes, reply,
          request, probed, clock, nOps>>

---------------------------------------------------------------------------
(* Program constants *)

NULL == 0
FreshnessWindow == 600
LogLimit == 50
LatencyThreshold == 50

(* Bounds of the model *)

MaxOps == 3

---------------------------------------------------------------------------
(* Tables *)

Row(id, name, ip, type, status, location) ==
    [id |-> id, name |-> name, ip |-> ip, type |-> type, status |-> status,
     last_seen |-> NULL, location |-> location, latency |-> 0,
     downtime_start |-> NULL]

SeedDevices ==
    <<Row(1, "Core Switch 01", "192.168.1.1", "switch", "online", "Data Center A"),
      Row(2, "Edge Router", "10.0.0.1", "router", "online", "Main Office"),
      Row(3, "Access Point North", "192.168.1.50", "ap", "online", "Floor 2"),
      Row(4, "Backup Server", "192.168.1.100", "server", "offline", "Basement")>>

SeedSettings == [simulation_mode |-> "false"]

RECURSIVE SetToSeq(_)
SetToSeq(S) ==
    IF S = {} THEN <<>>
    ELSE LET m == CHOOSE x \in S : \A y \in S : x <= y
         IN  <<m>> \o SetToSeq(S \ {m})

\* the rows of tbl with the given ids, in rowid order
Rows(tbl, idset) ==
    LET ids == SetToSeq(idset)
    IN  [k \in 1..Len(ids) |-> tbl[ids[k]]]

\* SELECT * FROM devices
SelectAll(tbl) == Rows(tbl, DOMAIN tbl)

\* variant: only the first device with the address is selected
SelectByIp_FirstOnly(tbl, ip) ==
    LET ids == {i \in DOMAIN tbl : tbl[i].ip = ip}
    IN  Rows(tbl, {i \in ids : \A j \in ids : i <= j})

\* SELECT * FROM devices WHERE ip = ?
SelectByIp(tbl, ip) == Rows(tbl, {i \in DOMAIN tbl : tbl[i].ip = ip})

\* The part of the database and of the socket a handler changes
Store == [devices |-> devices, logs |-> logs, nextLogId |-> nextLogId,
          events |-> events, writes |-> writes]

InsertLog(st, device_id, status, latency, timestamp) ==
    [st EXCEPT !.logs = Append(@, [id |-> st.nextLogId, device_id |-> device_id,
                                   status |-> status, latency |-> latency,
                                   timestamp |-> timestamp]),
               !.nextLogId = @ + 1]

\* variant: DELETE FROM logs
DeleteLogs_All(tbl, device_id) == <<>>

\* DELETE FROM logs WHERE device_id = ?
RECURSIVE DeleteLogs(_, _)
DeleteLogs(tbl, device_id) ==
    IF tbl = <<>> THEN <<>>
    ELSE IF Head(tbl).device_id = device_id THEN DeleteLogs(Tail(tbl), device_id)
    ELSE <<Head(tbl)>> \o DeleteLogs(Tail(tbl), device_id)

\* the orders ORDER BY timestamp DESC allows for a set of rows: rows with the
\* same timestamp come in whatever order the query plan yields
RECURSIVE OrderByTimestampDesc(_)
OrderByTimestampDesc(rows) ==
    IF rows = {} THEN {<<>>}
    ELSE LET newest == {x \in rows : \A y \in rows : y.timestamp <= x.timestamp}
         IN  UNION {{<<x>> \o rest : rest \in OrderByTimestampDesc(rows \ {x})} :
                       x \in newest}

\* LIMIT n
Limit(rows, n) == SubSeq(rows, 1, IF Len(rows) < n THEN Len(rows) ELSE n)

\* SELECT * FROM logs WHERE device_id = ? ORDER BY timestamp DESC LIMIT 50:
\* the results the statement can give
SelectLogs(tbl, device_id) ==
    {Limit(rows, LogLimit) :
        rows \in OrderByTimestampDesc({tbl[k] : k \in {k \in 1..Len(tbl) :
                                                        tbl[k].device_id = device_id}})}

Emit(st, event) == [st EXCEPT !.events = Append(@, event)]

---------------------------------------------------------------------------
(* POST /api/agent/report *)

\* variant: the status is stored as it was sent
ToLowerCase_AsSent(s) == s

\* String(report.status).toLowerCase(), on the status strings agents send
ToLowerCase(s) ==
    CASE s = "OFFLINE" -> "offline"
      [] s = "Offline" -> "offline"
      [] s = "ONLINE"  -> "online"
      [] s = "Online"  -> "online"
      [] OTHER         -> s

\* Array.isArray(req.body)
IsArray(body) == body.kind = "array"

\* a null element of the list: reading report.ip raises a TypeError
IsNullElement(report) == "null" \in DOMAIN report

\* JavaScript truthiness of a string field: present and not empty
Truthy(report, field) == field \in DOMAIN report /\ report[field] # ""

\* report.latency || 0
LatencyOrZero(report) ==
    IF "latency" \in DOMAIN report /\ report.latency # 0 THEN report.latency ELSE 0

Abs(x) == IF x < 0 THEN -x ELSE x

\* variant: every offline report restarts the downtime
DowntimeStart_RestartOnOffline(device, normalizedStatus, timestamp) ==
    IF normalizedStatus = "offline" THEN timestamp
    ELSE IF normalizedStatus = "online" THEN NULL
    ELSE device.downtime_start

\* lines 136-141
DowntimeStart(device, normalizedStatus, timestamp) ==
    IF normalizedStatus = "offline" /\ device.downtime_start = NULL THEN timestamp
    ELSE IF normalizedStatus = "online" THEN NULL
    ELSE device.downtime_start

\* variant: only a status change is logged
LogWorthy_StatusOnly(device, normalizedStatus, latency) ==
    device.status # normalizedStatus

\* variant: a latency change of exactly the threshold is logged too
LogWorthy_AtThreshold(device, normalizedStatus, latency) ==
    \/ device.status # normalizedStatus
    \/ Abs(device.latency - latency) >= LatencyThreshold

\* line 148
LogWorthy(device, normalizedStatus, latency) ==
    \/ device.status # normalizedStatus
    \/ Abs(device.latency - latency) > LatencyThreshold

\* line 145: UPDATE devices SET last_seen, status, latency, downtime_start
AgentWrite(st, device, normalizedStatus, latency, downtimeStart, timestamp) ==
    [st EXCEPT !.devices[device.id] =
                   [@ EXCEPT !.last_seen = timestamp, !.status = normalizedStatus,
                             !.latency = latency, !.downtime_start = downtimeStart],
               !.writes = Append(@, [id |-> device.id, status |-> normalizedStatus,
                                     timestamp |-> timestamp])]

\* lines 153-159
AgentEvent(device, normalizedStatus, latency, downtimeStart, timestamp) ==
    [id |-> device.id, status |-> normalizedStatus, latency |-> latency,
     downtime_start |-> downtimeStart, timestamp |-> timestamp]

\* variant: the row is written only when the change is log-worthy
AgentUpdate_WriteIfLogWorthy(st, device, report, timestamp) ==
    LET normalizedStatus == ToLowerCase(report.status)
        latency == LatencyOrZero(report)
        downtimeStart == DowntimeStart(device, normalizedStatus, timestamp)
    IN  IF LogWorthy(device, normalizedStatus, latency)
        THEN Emit(InsertLog(AgentWrite(st, device, normalizedStatus, latency,
                                       downtimeStart, timestamp),
                            device.id, normalizedStatus, latency, timestamp),
                  AgentEvent(device, normalizedStatus, latency, downtimeStart,
                             timestamp))
        ELSE Emit(st, AgentEvent(device, normalizedStatus, latency, downtimeStart,
                                 timestamp))

\* the body of devices.forEach, lines 131-160
AgentUpdate(st, device, report, timestamp) ==
    LET normalizedStatus == ToLowerCase(report.status)
        latency == LatencyOrZero(report)
        downtimeStart == DowntimeStart(device, normalizedStatus, timestamp)
        updated == AgentWrite(st, device, normalizedStatus, latency, downtimeStart,
                              timestamp)
        logged == IF LogWorthy(device, normalizedStatus, latency)
                  THEN InsertLog(updated, device.id, normalizedStatus, latency,
                                 timestamp)
                  ELSE updated
    IN  Emit(logged, AgentEvent(device, normalizedStatus, latency, downtimeStart,
                                timestamp))

RECURSIVE ForEachDevice(_, _, _, _)
ForEachDevice(st, rows, report, timestamp) ==
    IF rows = <<>> THEN st
    ELSE ForEachDevice(AgentUpdate(st, Head(rows), report, timestamp),
                       Tail(rows), report, timestamp)

\* line 127
SkipReport(report) == ~Truthy(report, "ip") \/ ~Truthy(report, "status")

\* variant: an element without address or status ends the loop
RECURSIVE ForEachReport_StopAtSkipped(_, _, _)
ForEachReport_StopAtSkipped(st, reports, timestamp) ==
    IF reports = <<>> THEN [store |-> st, threw |-> FALSE]
    ELSE LET report == Head(reports)
         IN  IF IsNullElement(report) THEN [store |-> st, threw |-> TRUE]
             ELSE IF SkipReport(report) THEN [store |-> st, threw |-> FALSE]
             ELSE ForEachReport_StopAtSkipped(
                      ForEachDevice(st, SelectByIp(st.devices, report.ip),
                                    report, timestamp),
                      Tail(reports), timestamp)

\* variant: the rows of every element are those of the table as it was when
\* the request came
RECURSIVE ForEachReport_RowsBefore(_, _, _, _)
ForEachReport_RowsBefore(before, st, reports, timestamp) ==
    IF reports = <<>> THEN [store |-> st, threw |-> FALSE]
    ELSE LET report == Head(reports)
         IN  IF IsNullElement(report) THEN [store |-> st, threw |-> TRUE]
             ELSE IF SkipReport(report)
                  THEN ForEachReport_RowsBefore(before, st, Tail(reports), timestamp)
             ELSE ForEachReport_RowsBefore(before,
                      ForEachDevice(st, SelectByIp(before, report.ip),
                                    report, timestamp),
                      Tail(reports), timestamp)

ForEachReport_SelectOnce(st, reports, timestamp) ==
    ForEachReport_RowsBefore(st.devices, st, reports, timestamp)

\* reports.forEach, lines 126-161; threw: an exception left the loop
RECURSIVE ForEachReport(_, _, _)
ForEachReport(st, reports, timestamp) ==
    IF reports = <<>> THEN [store |-> st, threw |-> FALSE]
    ELSE LET report == Head(reports)
         IN  IF IsNullElement(report) THEN [store |-> st, threw |-> TRUE]
             ELSE IF SkipReport(report)
                  THEN ForEachReport(st, Tail(reports), timestamp)
             ELSE ForEachReport(
                      ForEachDevice(st,
                          SelectByIp(st.devices, report.ip),
                          report, timestamp),
                      Tail(reports), timestamp)

\* variant: the payload is not tested for being a list
HandleReport_NoArrayCheck(st, body, timestamp) ==
    LET r == ForEachReport(st, body.elems, timestamp)
    IN  [store |-> r.store, code |-> IF r.threw THEN 500 ELSE 200]

\* the handler, lines 118-168: the store it leaves and the status it answers
HandleReport(st, body, timestamp) ==
    IF ~IsArray(body) THEN [store |-> st, code |-> 400]
    ELSE LET r == ForEachReport(st, body.elems, timestamp)
         IN  [store |-> r.store, code |-> IF r.threw THEN 500 ELSE 200]

---------------------------------------------------------------------------
(* The prober, lines 171-215 *)

\* line 173
IsSimulation == settings.simulation_mode = "true"

\* lines 182-186: the staleness guard, on the snapshot row and the cycle's now
Fresh(device, now) ==
    /\ device.last_seen # NULL
    /\ now - device.last_seen < FreshnessWindow

\* the loop outside simulation, up to the next await: fresh devices are skipped
RECURSIVE SkipFresh(_, _)
SkipFresh(rows, now) ==
    IF rows = <<>> THEN <<>>
    ELSE IF Fresh(Head(rows), now) THEN SkipFresh(Tail(rows), now)
    ELSE rows

\* variant: foreign keys not enforced: the log row and the event of a deleted device
ProberWrite_EmitWithoutRow(st, device, newStatus, now) ==
    LET updated ==
            IF device.id \notin DOMAIN st.devices THEN st
            ELSE [st EXCEPT !.devices[device.id] =
                                [@ EXCEPT !.status = newStatus, !.last_seen = now],
                            !.writes = Append(@, [id |-> device.id,
                                                  status |-> newStatus,
                                                  timestamp |-> now])]
    IN  Emit(InsertLog(updated, device.id, newStatus, 0, now),
             [id |-> device.id, status |-> newStatus, timestamp |-> now])

\* variant: the log entry of a row deleted since the snapshot is inserted
ProberWrite_LogWithoutRow(st, device, newStatus, now) ==
    IF device.id \notin DOMAIN st.devices
    THEN InsertLog(st, device.id, newStatus, 0, now)
    ELSE LET updated ==
                 [st EXCEPT !.devices[device.id] =
                                [@ EXCEPT !.status = newStatus, !.last_seen = now],
                            !.writes = Append(@, [id |-> device.id,
                                                  status |-> newStatus,
                                                  timestamp |-> now])]
         IN  Emit(InsertLog(updated, device.id, newStatus, 0, now),
                  [id |-> device.id, status |-> newStatus, timestamp |-> now])

\* variant: a row deleted since the snapshot is written back
ProberWrite_Upsert(st, device, newStatus, now) ==
    LET row == IF device.id \in DOMAIN st.devices THEN st.devices[device.id]
               ELSE device
        updated ==
            [st EXCEPT !.devices = (device.id :> [row EXCEPT !.status = newStatus,
                                                             !.last_seen = now])
                                       @@ @,
                       !.writes = Append(@, [id |-> device.id,
                                             status |-> newStatus,
                                             timestamp |-> now])]
    IN  Emit(InsertLog(updated, device.id, newStatus, 0, now),
             [id |-> device.id, status |-> newStatus, timestamp |-> now])

\* lines 202-209.  The UPDATE of a row deleted since the snapshot changes
\* nothing, and the INSERT that follows violates logs.device_id REFERENCES
\* devices(id) (better-sqlite3 enforces foreign keys), so it throws into the
\* catch of line 211 before the event is emitted.
ProberWrite(st, device, newStatus, now) ==
    IF device.id \notin DOMAIN st.devices THEN st
    ELSE LET updated ==
                 [st EXCEPT !.devices[device.id] =
                                [@ EXCEPT !.status = newStatus, !.last_seen = now],
                            !.writes = Append(@, [id |-> device.id,
                                                  status |-> newStatus,
                                                  timestamp |-> now])]
         IN  Emit(InsertLog(updated, device.id, newStatus, 0, now),
                  [id |-> device.id, status |-> newStatus, timestamp |-> now])

\* line 201
ProberApply(st, device, newStatus, now) ==
    IF newStatus # device.status THEN ProberWrite(st, device, newStatus, now)
    ELSE st

\* variant: the staleness guard is applied in simulation mode too
RECURSIVE SimulationCycle_SkipFresh(_, _, _)
SimulationCycle_SkipFresh(st, rows, now) ==
    IF rows = <<>> THEN st
    ELSE IF Fresh(Head(rows), now) THEN SimulationCycle_SkipFresh(st, Tail(rows), now)
    ELSE SimulationCycle_SkipFresh(ProberApply(st, Head(rows), "online", now),
                                   Tail(rows), now)

\* the whole loop in simulation mode: no await, every device resolves online
RECURSIVE SimulationCycle(_, _, _)
SimulationCycle(st, rows, now) ==
    IF rows = <<>> THEN st
    ELSE SimulationCycle(ProberApply(st, Head(rows), "online", now),
                         Tail(rows), now)

\* the cycles left when cycle c goes on with `rows` after its probe
Continue(c, rows) ==
    IF rows = <<>>
    THEN [k \in 1..(Len(cycles) - 1) |-> IF k < c THEN cycles[k] ELSE cycles[k + 1]]
    ELSE [cycles EXCEPT ![c].devices = rows]

---------------------------------------------------------------------------
(* Inputs *)

Addresses == {"192.168.1.1"}
ReportStatuses == {"online", "offline", "OFFLINE"}
ReportLatencies == {50, 51}

ValidReports ==
    [ip : Addresses, status : ReportStatuses]
        \cup [ip : Addresses, status : ReportStatuses, latency : ReportLatencies]

\* a status outside online/offline/unknown, and a negative latency
OddReports ==
    {[ip |-> "192.168.1.1", status |-> "degraded"],
     [ip |-> "192.168.1.1", status |-> "online", latency |-> -5]}

SkippedReports == {[ip |-> "192.168.1.1"], [status |-> "offline"]}

NullElement == [null |-> TRUE]

Batches ==
    LET a == [ip |-> "192.168.1.1", status |-> "offline", latency |-> 50]
        b == [ip |-> "192.168.1.1", status |-> "online", latency |-> 51]
        m == [ip |-> "192.168.1.1"]
    IN  {<<m, a>>, <<a, m>>, <<NullElement, a>>, <<a, NullElement>>, <<a, b>>}

Bodies ==
    {[kind |-> "array", elems |-> <<>>]}
        \cup {[kind |-> "array", elems |-> <<r>>] :
                 r \in ValidReports \cup OddReports \cup SkippedReports
                          \cup {NullElement}}
        \cup {[kind |-> "array", elems |-> e] : e \in Batches}
        \cup {[kind |-> "object",
               elems |-> <<[ip |-> "192.168.1.1", status |-> "offline"]>>]}

\* seconds between two steps: a moment, the last second inside the freshness
\* window, and the first second past it
ClockSteps == {1, FreshnessWindow - 1, FreshnessWindow}

\* variant: no timeout, the probe of the host that does not answer stays
\* pending
ProbeOutcomes_NoTimeout(ip) ==
    IF ip \in {"10.0.0.1", "192.168.1.50"} THEN {"alive"}
    ELSE IF ip = "192.168.1.100" THEN {}
    ELSE {"alive", "dead", "throw"}

\* what a probe of an address can do: answer, not answer, or be rejected.
\* The hosts of seed rows 2 and 3 answer every probe.
ProbeOutcomes(ip) ==
    IF ip \in {"10.0.0.1", "192.168.1.50"} THEN {"alive"}
    ELSE {"alive", "dead", "throw"}

\* ids DELETE is called with
DeleteIds == {1, 4}
QueryIds == {1}

NewDevices ==
    {[name |-> "Core Switch 02", ip |-> "192.168.1.1", type |-> "switch",
      location |-> "Data Center A"]}

---------------------------------------------------------------------------
SetStore(st) ==
    /\ devices' = st.devices
    /\ logs' = st.logs
    /\ nextLogId' = st.nextLogId
    /\ events' = st.events
    /\ writes' = st.writes

Init ==
    /\ devices = [i \in 1..Len(SeedDevices) |-> SeedDevices[i]]
    /\ nextId = Len(SeedDevices) + 1
    /\ logs = <<>>
    /\ nextLogId = 1
    /\ settings = SeedSettings
    /\ cycles = <<>>
    /\ events = <<>>
    /\ writes = <<>>
    /\ request = [n |-> 0]
    /\ probed = [n |-> 0]
    /\ reply = [n |-> 0]
    /\ clock = 1
    /\ nOps = 0

\* one more handler invocation, timer tick or clock advance
Op ==
    /\ nOps < MaxOps
    /\ nOps' = nOps + 1

\* time passes
AdvanceClock(d) ==
    /\ Op
    /\ clock' = clock + d
    /\ UNCHANGED <<reply, devices, nextId, logs, nextLogId, settings, cycles, events,
                   writes, request, probed>>

\* variant: the handler awaits in its loop, and the callback of the oldest
\* cycle writes the device it was probing before the handler ends
AgentReport_AwaitsInLoop(body) ==
    /\ Op
    /\ LET r == HandleReport(Store, body, clock)
       IN  /\ SetStore(IF cycles = <<>> THEN r.store
                       ELSE ProberWrite(r.store, Head(cycles[1].devices), "offline",
                                        cycles[1].now))
           /\ request' = [n |-> request.n + 1, body |-> body, code |-> r.code]
    /\ UNCHANGED <<reply, nextId, settings, cycles, probed, clock>>

\* POST /api/agent/report with body req.body
AgentReport(body) ==
    /\ Op
    /\ LET r == HandleReport(Store, body, clock)
       IN  /\ SetStore(r.store)
           /\ request' = [n |-> request.n + 1, body |-> body, code |-> r.code]
    /\ UNCHANGED <<reply, nextId, settings, cycles, probed, clock>>

\* the setInterval callback from its start to its first await (or its end).
\* setInterval starts it on every tick, whether or not an earlier callback
\* has returned.  The period (10 s) and the duration of a probe (up to its
\* 2 s timeout, one probe after the other) are not modelled: a tick may come
\* at any time.
Tick ==
    /\ Op
    /\ LET snapshot == SelectAll(devices)
           now == clock
       IN  IF IsSimulation
           THEN /\ SetStore(SimulationCycle(Store, snapshot, now))
                /\ UNCHANGED cycles
           ELSE /\ cycles' = IF SkipFresh(snapshot, now) = <<>> THEN cycles
                             ELSE Append(cycles, [devices |-> SkipFresh(snapshot, now),
                                                  now |-> now])
                /\ UNCHANGED <<devices, logs, nextLogId, events, writes>>
    /\ UNCHANGED <<reply, nextId, settings, request, probed, clock>>

\* variant: a rejected probe ends the callback
ProbeSettle_ThrowEndsCycle(c, outcome) ==
    /\ c \in 1..Len(cycles)
    /\ outcome \in ProbeOutcomes(Head(cycles[c].devices).ip)
    /\ LET device == Head(cycles[c].devices)
           now == cycles[c].now
           newStatus == IF outcome = "alive" THEN "online" ELSE "offline"
       IN  /\ SetStore(IF outcome = "throw" THEN Store
                       ELSE ProberApply(Store, device, newStatus, now))
           /\ cycles' = Continue(c, IF outcome = "throw" THEN <<>>
                                    ELSE SkipFresh(Tail(cycles[c].devices), now))
           /\ probed' = [n |-> probed.n + 1, id |-> device.id, outcome |-> outcome,
                         now |-> now]
    /\ UNCHANGED <<reply, nextId, settings, request, clock, nOps>>

\* the awaited probe of cycle c settles: alive, not alive, or rejected;
\* the callback runs on to its next await (or its end)
ProbeSettle(c, outcome) ==
    /\ c \in 1..Len(cycles)
    /\ outcome \in ProbeOutcomes(Head(cycles[c].devices).ip)
    /\ LET device == Head(cycles[c].devices)
           now == cycles[c].now
           newStatus == IF outcome = "alive" THEN "online" ELSE "offline"
       IN  /\ SetStore(IF outcome = "throw" THEN Store
                       ELSE ProberApply(Store, device, newStatus, now))
           /\ cycles' = Continue(c, SkipFresh(Tail(cycles[c].devices), now))
           /\ probed' = [n |-> probed.n + 1, id |-> device.id, outcome |-> outcome,
                         now |-> now]
    /\ UNCHANGED <<reply, nextId, settings, request, clock, nOps>>

\* POST /api/devices
CreateDevice(d) ==
    /\ Op
    /\ devices' = (nextId :> Row(nextId, d.name, d.ip, d.type, "unknown", d.location))
                      @@ devices
    /\ nextId' = nextId + 1
    /\ UNCHANGED <<reply, logs, nextLogId, settings, cycles, events, writes, request,
                   probed, clock>>

\* DELETE /api/devices/:id
DeleteDevice(id) ==
    /\ Op
    /\ logs' = DeleteLogs(logs, id)
    /\ devices' = [i \in DOMAIN devices \ {id} |-> devices[i]]
    /\ UNCHANGED <<reply, nextId, nextLogId, settings, cycles, events, writes, request,
                   probed, clock>>

\* POST /api/settings {key: "simulation_mode", value}
SetSimulation(value) ==
    /\ Op
    /\ settings' = [settings EXCEPT
                        !.simulation_mode = IF value THEN "true" ELSE "false"]
    /\ UNCHANGED <<reply, devices, nextId, logs, nextLogId, cycles, events, writes,
                   request, probed, clock>>

\* GET /api/logs/:deviceId
GetLogs(deviceId) ==
    /\ Op
    /\ \E rows \in SelectLogs(logs, deviceId) :
           reply' = [n |-> reply.n + 1, deviceId |-> deviceId, rows |-> rows]
    /\ UNCHANGED <<devices, nextId, logs, nextLogId, settings, cycles, events,
                   writes, request, probed, clock>>

Next ==
    \/ \E d \in ClockSteps : AdvanceClock(d)
    \/ \E body \in Bodies : AgentReport(body)
    \/ Tick
    \/ \E c \in 1..MaxOps, outcome \in {"alive", "dead", "throw"} :
           ProbeSettle(c, outcome)
    \/ \E d \in NewDevices : CreateDevice(d)
    \/ \E id \in DeleteIds : DeleteDevice(id)
    \/ \E value \in BOOLEAN : SetSimulation(value)
    \/ \E deviceId \in QueryIds : GetLogs(deviceId)

Spec == Init /\ [][Next]_vars

\* a probe in flight settles: timeout: 2 bounds the time it can take
ProbeSettles == \E c \in 1..MaxOps, outcome \in {"alive", "dead", "throw"} :
                    ProbeSettle(c, outcome)

FairSpec == Spec /\ WF_vars(ProbeSettles)

---------------------------------------------------------------------------
(* Helpers of the properties *)

\* the entries of a history that concern device id, in order
RECURSIVE OfDevice(_, _)
OfDevice(history, id) ==
    IF history = <<>> THEN <<>>
    ELSE IF Head(history).id = id THEN <<Head(history)>> \o OfDevice(Tail(history), id)
    ELSE OfDevice(Tail(history), id)

\* what an event says of the write it reports
WriteOf(event) ==
    [id |-> event.id, status |-> event.status, timestamp |-> event.timestamp]

\* every id a device ever had
EverIds == 1..(nextId - 1)

\* this step handled an agent request / settled a probe
AgentStep == request'.n = request.n + 1
ProbeStep == probed'.n = probed.n + 1

\* no element of the list raises when it is read
RECURSIVE AllObjects(_)
AllObjects(elems) ==
    elems = <<>> \/ (~IsNullElement(Head(elems)) /\ AllObjects(Tail(elems)))

\* the elements that carry an address and a status
RECURSIVE ValidOf(_)
ValidOf(elems) ==
    IF elems = <<>> THEN <<>>
    ELSE IF SkipReport(Head(elems)) THEN ValidOf(Tail(elems))
    ELSE <<Head(elems)>> \o ValidOf(Tail(elems))

\* the devices an element addresses
Matching(report) == {d \in DOMAIN devices : devices[d].ip = report.ip}

RECURSIVE MatchCount(_)
MatchCount(elems) ==
    IF elems = <<>> THEN 0
    ELSE Cardinality(Matching(Head(elems))) + MatchCount(Tail(elems))

\* this step handled a list of report objects
ListStep ==
    AgentStep /\ IsArray(request'.body) /\ AllObjects(request'.body.elems)

\* ... of which exactly one is valid
OneReportStep == ListStep /\ Len(ValidOf(request'.body.elems)) = 1

TheReport == ValidOf(request'.body.elems)[1]

AddedLogs == SubSeq(logs', Len(logs) + 1, Len(logs'))
AddedEvents == SubSeq(events', Len(events) + 1, Len(events'))

---------------------------------------------------------------------------
(* C1: in every reachable state, every device has downtime_start non-null  *)
(* if and only if its status is offline.                                   *)
C1_DowntimeIffOffline ==
    \A d \in DOMAIN devices :
        (devices[d].downtime_start # NULL) <=> (devices[d].status = "offline")

(* C2: every step that takes a device into offline leaves downtime_start   *)
(* at the timestamp of that write if it was null, and every step that      *)
(* takes a device into online leaves downtime_start null, whichever path   *)
(* (agent report or prober) made the write.                                *)
C2_TransitionsKeepDowntime ==
    [][\A d \in DOMAIN devices \cap DOMAIN devices' :
           /\ (/\ devices[d].status # "offline"
               /\ devices'[d].status = "offline"
               /\ devices[d].downtime_start = NULL)
                  => devices'[d].downtime_start = devices'[d].last_seen
           /\ (devices[d].status # "online" /\ devices'[d].status = "online")
                  => devices'[d].downtime_start = NULL]_vars

(* C3: of the observations written for one device, the one with the latest *)
(* timestamp determines the stored state: no write carries a timestamp     *)
(* later than the last_seen the store holds for its device, so a prober    *)
(* write never replaces the state a later agent report wrote.              *)
C3_LaterTimestampWins ==
    \A d \in DOMAIN devices :
        \A k \in 1..Len(writes) :
            writes[k].id = d => writes[k].timestamp <= devices[d].last_seen

(* C4: at most one prober cycle is in progress at any time.                *)
C4_SingleCycle == Len(cycles) <= 1

(* C5: for each device, the published device_update events are exactly the *)
(* writes made to that device, in the same order: each event reports the   *)
(* device, status and timestamp of its write, and there is no event        *)
(* without a write and no write without an event.                          *)
C5_EventsMatchWrites ==
    \A d \in EverIds :
        LET ev == OfDevice(events, d)
        IN  [k \in 1..Len(ev) |-> WriteOf(ev[k])] = OfDevice(writes, d)

\* a device written by the agent path and by the prober path
C5_Witness ==
    \E i, j \in 1..Len(events) :
        /\ events[i].id = events[j].id
        /\ "latency" \in DOMAIN events[i]
        /\ "latency" \notin DOMAIN events[j]

(* C6: an observation whose status equals the stored status and whose      *)
(* latency is within the threshold of the stored latency appends no log    *)
(* entry and sets last_seen to the observation's timestamp, on the agent   *)
(* path (a request of one valid report) and on the prober path (a probe    *)
(* that settled alive or not alive; it carries latency 0).                 *)
C6_UnchangedRefreshesLastSeen ==
    [][/\ OneReportStep
              => LET report == TheReport
                 IN  \A d \in DOMAIN devices :
                         (/\ devices[d].ip = report.ip
                          /\ devices[d].status = ToLowerCase(report.status)
                          /\ Abs(devices[d].latency - LatencyOrZero(report))
                                 <= LatencyThreshold)
                             => /\ \A k \in 1..Len(AddedLogs) :
                                       AddedLogs[k].device_id # d
                                /\ devices'[d].last_seen = clock
       /\ (ProbeStep /\ probed'.outcome # "throw")
              => LET d == probed'.id
                     status == IF probed'.outcome = "alive" THEN "online"
                               ELSE "offline"
                 IN  (/\ d \in DOMAIN devices
                      /\ devices[d].status = status
                      /\ Abs(devices[d].latency - 0) <= LatencyThreshold)
                         => /\ logs' = logs
                            /\ devices'[d].last_seen = probed'.now]_vars


(* C7: when a request applies one valid report, each device matching its   *)
(* address gets exactly one new log entry if the normalized status differs *)
(* from the device's status before the update or the latencies differ by   *)
(* more than 50 (exactly 50 does not count), and none otherwise; the entry *)
(* records the device id and the report's normalized status, latency and   *)
(* timestamp.  Nothing else is appended and no entry is removed.           *)
C7_LogIffWorthy ==
    [][OneReportStep =>
           LET status == ToLowerCase(TheReport.status)
               latency == LatencyOrZero(TheReport)
               worthy == {d \in Matching(TheReport) :
                              \/ devices[d].status # status
                              \/ devices[d].latency - latency > 50
                              \/ latency - devices[d].latency > 50}
           IN  /\ Len(logs') = Len(logs) + Cardinality(worthy)
               /\ SubSeq(logs', 1, Len(logs)) = logs
               /\ \A d \in worthy :
                      \E k \in 1..Len(AddedLogs) :
                          AddedLogs[k] = [id |-> AddedLogs[k].id, device_id |-> d,
                                          status |-> status, latency |-> latency,
                                          timestamp |-> clock]]_vars

\* one report reached two devices: the one whose status it changed was
\* logged, the one it moved by exactly 50 ms was not
C7_Witness ==
    /\ request.n > 0
    /\ request.code = 200
    /\ request.body.elems
           = <<[ip |-> "192.168.1.1", status |-> "online", latency |-> 50]>>
    /\ 5 \in DOMAIN devices
    /\ devices[1].latency = 50
    /\ Len(logs) = 1
    /\ logs[1].device_id = 5
    /\ logs[1].status = "online"
    /\ logs[1].latency = 50

(* C8: when a request applies one valid report, each device matching its   *)
(* address has last_seen, status, latency and downtime_start overwritten   *)
(* with the report's resolved values (timestamp, normalized status,        *)
(* latency or 0, and downtime_start set to the timestamp on offline when   *)
(* it was null, cleared on online, kept otherwise), log-worthy or not, and *)
(* exactly one event carrying these values is published for it.            *)
C8_AlwaysOverwritten ==
    [][OneReportStep =>
           LET status == ToLowerCase(TheReport.status)
               latency == LatencyOrZero(TheReport)
           IN  /\ Len(AddedEvents) = Cardinality(Matching(TheReport))
               /\ \A d \in Matching(TheReport) :
                      LET downtime ==
                              IF status = "offline"
                              THEN IF devices[d].downtime_start = NULL THEN clock
                                   ELSE devices[d].downtime_start
                              ELSE IF status = "online" THEN NULL
                              ELSE devices[d].downtime_start
                      IN  /\ devices'[d] =
                                 [devices[d] EXCEPT !.last_seen = clock,
                                                    !.status = status,
                                                    !.latency = latency,
                                                    !.downtime_start = downtime]
                          /\ \E k \in 1..Len(AddedEvents) :
                                 AddedEvents[k] =
                                     [id |-> d, status |-> status,
                                      latency |-> latency,
                                      downtime_start |-> downtime,
                                      timestamp |-> clock]]_vars

\* a report that was not log-worthy was written and published all the same
C8_Witness ==
    /\ request.n = 1
    /\ request.code = 200
    /\ request.body.elems = <<[ip |-> "192.168.1.1", status |-> "online"]>>
    /\ logs = <<>>
    /\ devices[1].last_seen = clock
    /\ Len(events) = 1

(* C9: a request whose payload is not a list is answered 400 and changes   *)
(* no device, appends no log entry and publishes no event.                 *)
C9_NotAListRejected ==
    [][(AgentStep /\ request'.body.kind # "array") =>
           /\ request'.code = 400
           /\ devices' = devices
           /\ logs' = logs
           /\ events' = events]_vars

\* a bare report object was posted and refused
C9_Witness ==
    /\ request.n > 0
    /\ request.body.kind = "object"
    /\ request.code = 400

(* C10: a list of report objects is answered 200 whatever elements lack an *)
(* address or a status; those elements cause no write, log entry or event  *)
(* (a list of nothing else changes nothing, and the events published are   *)
(* one per valid element and matching device), and a valid element beside  *)
(* them is applied: its devices hold its status and latency.               *)
C10_MalformedSkipped ==
    [][ListStep =>
           LET valid == ValidOf(request'.body.elems)
           IN  /\ request'.code = 200
               /\ Len(AddedEvents) = MatchCount(valid)
               /\ valid = <<>> =>
                      (devices' = devices /\ logs' = logs /\ events' = events)
               /\ Len(valid) = 1 =>
                      \A d \in Matching(valid[1]) :
                          /\ devices'[d].status = ToLowerCase(valid[1].status)
                          /\ devices'[d].latency = LatencyOrZero(valid[1])
                          /\ devices'[d].last_seen = clock
                          /\ \E k \in 1..Len(AddedEvents) : AddedEvents[k].id = d]_vars

\* a list of one element without status and one valid element: answered
\* 200, the valid element applied and published
C10_Witness ==
    /\ request.n > 0
    /\ request.code = 200
    /\ request.body.elems
           = <<[ip |-> "192.168.1.1"],
               [ip |-> "192.168.1.1", status |-> "offline", latency |-> 50]>>
    /\ devices[1].status = "offline"
    /\ devices[1].latency = 50
    /\ Len(events) = 1
    /\ events[1].id = 1

---------------------------------------------------------------------------
(* Helpers of the prober properties *)

\* the cycles whose callback, in this step, came to await a probe: a cycle
\* that started, or the cycle whose last probe settled
Reaching ==
    IF Len(cycles') < Len(cycles) THEN {}
    ELSE {c \in 1..Len(cycles') : c > Len(cycles) \/ cycles'[c] # cycles[c]}

\* the status a settled probe resolves
Resolved(outcome) == IF outcome = "alive" THEN "online" ELSE "offline"

\* the agent path's events carry latency and downtime_start, the prober's do not
ByAgent(event) == "latency" \in DOMAIN event

(* C11: when an element of a list raises an exception (a null element),    *)
(* the elements after it are still processed and applied: the events of    *)
(* the request are one per valid element and matching device, and a valid  *)
(* element after the failing one is written to its devices.                *)
C11_LaterElementsApplied ==
    [][(AgentStep /\ IsArray(request'.body)) =>
           LET valid == ValidOf(request'.body.elems)
           IN  /\ Len(AddedEvents) = MatchCount(valid)
               /\ Len(valid) = 1 =>
                      \A d \in Matching(valid[1]) :
                          /\ devices'[d].status = ToLowerCase(valid[1].status)
                          /\ devices'[d].last_seen = clock]_vars

(* C12: outside simulation, a device whose probe the prober comes to issue *)
(* has, in the store at that moment, a null last_seen or one at least 600  *)
(* seconds old: a device the store holds a fresher last_seen for is not    *)
(* probed.                                                                 *)
C12_GuardOnStoredLastSeen ==
    [][\A c \in Reaching :
           LET d == Head(cycles'[c].devices).id
           IN  d \in DOMAIN devices' =>
                   \/ devices'[d].last_seen = NULL
                   \/ clock - devices'[d].last_seen >= FreshnessWindow]_vars

(* C13: a cycle that reads the simulation flag as on awaits no probe,      *)
(* leaves every device online, whatever its last_seen, and appends one log *)
(* entry and publishes one event for each device that was not online       *)
(* before it, and none for the others.                                     *)
C13_SimulationAllOnline ==
    [][(Tick /\ IsSimulation) =>
           LET changed == {d \in DOMAIN devices : devices[d].status # "online"}
           IN  /\ cycles' = cycles
               /\ DOMAIN devices' = DOMAIN devices
               /\ \A d \in DOMAIN devices : devices'[d].status = "online"
               /\ Len(AddedLogs) = Cardinality(changed)
               /\ Len(AddedEvents) = Cardinality(changed)
               /\ SubSeq(logs', 1, Len(logs)) = logs
               /\ \A d \in changed :
                      /\ \E k \in 1..Len(AddedLogs) :
                             /\ AddedLogs[k].device_id = d
                             /\ AddedLogs[k].status = "online"
                      /\ \E k \in 1..Len(AddedEvents) :
                             /\ AddedEvents[k].id = d
                             /\ AddedEvents[k].status = "online"]_vars

\* simulation on: a device an agent had just reported offline, and seed row
\* 4, were set online and logged; rows 2 and 3 were not logged
C13_Witness ==
    /\ IsSimulation
    /\ request.n = 1
    /\ Len(logs) = 3
    /\ logs[1].device_id = 1 /\ logs[1].status = "offline"
    /\ logs[2].device_id = 1 /\ logs[2].status = "online"
    /\ logs[3].device_id = 4 /\ logs[3].status = "online"
    /\ logs[1].timestamp = logs[2].timestamp
    /\ \A d \in DOMAIN devices : devices[d].status = "online"

(* C14: when a probe settles alive or not alive, the prober appends one    *)
(* log entry and publishes one event if the resolved status differs from   *)
(* the status the store holds for the device at that moment, and appends   *)
(* and publishes nothing if they are equal.                                *)
C14_LogIffStoredStatusDiffers ==
    [][(/\ ProbeStep
        /\ probed'.outcome # "throw"
        /\ probed'.id \in DOMAIN devices) =>
           IF devices[probed'.id].status # Resolved(probed'.outcome)
           THEN /\ Len(AddedLogs) = 1
                /\ AddedLogs[1].device_id = probed'.id
                /\ Len(AddedEvents) = 1
                /\ AddedEvents[1].id = probed'.id
           ELSE logs' = logs /\ events' = events]_vars

\* the devices of a snapshot the loop has still to probe
Pending(rows, now) ==
    {rows[k].id : k \in {k \in 1..Len(rows) : ~Fresh(rows[k], now)}}

(* C15: when the probe of a device raises an exception, the device's       *)
(* status, last_seen, latency and downtime_start stay as they were, no log *)
(* entry is appended and no event published, and the cycle goes on with    *)
(* every device that remained to be probed.                                *)
C15_ThrowLeavesDeviceAndGoesOn ==
    [][(ProbeStep /\ probed'.outcome = "throw") =>
           /\ devices' = devices
           /\ logs' = logs
           /\ events' = events
           /\ \E c \in 1..Len(cycles) :
                  /\ Head(cycles[c].devices).id = probed'.id
                  /\ cycles[c].now = probed'.now
                  /\ LET rest == Pending(Tail(cycles[c].devices), cycles[c].now)
                     IN  IF rest = {} THEN Len(cycles') = Len(cycles) - 1
                         ELSE /\ Len(cycles') = Len(cycles)
                              /\ Pending(cycles'[c].devices, cycles'[c].now) = rest]_vars

\* the probe of seed row 1 was rejected: the row is as seeded and the cycle
\* awaits the probe of seed row 2
C15_Witness ==
    /\ probed.n = 1
    /\ probed.outcome = "throw"
    /\ probed.id = 1
    /\ devices[1] = SeedDevices[1]
    /\ logs = <<>>
    /\ events = <<>>
    /\ Len(cycles) = 1
    /\ Head(cycles[1].devices).id = 2

(* C16: every published event carries id, status, latency, downtime_start  *)
(* and timestamp, and the last event a step publishes for a device carries *)
(* the values the store holds for that device after the step.              *)
C16_EventsCarryStoredValues ==
    [][\A k \in 1..Len(AddedEvents) :
           LET e == AddedEvents[k]
           IN  /\ {"id", "status", "latency", "downtime_start", "timestamp"}
                      \subseteq DOMAIN e
               /\ (/\ e.id \in DOMAIN devices'
                   /\ \A j \in (k + 1)..Len(AddedEvents) : AddedEvents[j].id # e.id)
                      => /\ e.status = devices'[e.id].status
                         /\ e.latency = devices'[e.id].latency
                         /\ e.downtime_start = devices'[e.id].downtime_start
                         /\ e.timestamp = devices'[e.id].last_seen]_vars

\* the last event published for a device that has one
HasEvent(d) == OfDevice(events, d) # <<>>

LastEvent(d) ==
    LET of == OfDevice(events, d)
    IN  of[Len(of)]

(* C17: an observation delivered after an earlier-stamped observation of   *)
(* the same device by the other source leaves the store with the later     *)
(* observation's status, latency and timestamp: an agent report after a    *)
(* prober write, and a settled probe after an agent report.                *)
C17_LaterObservationHeld ==
    [][/\ OneReportStep =>
              \A d \in Matching(TheReport) :
                  (/\ HasEvent(d)
                   /\ ~ByAgent(LastEvent(d))
                   /\ LastEvent(d).timestamp < clock)
                      => /\ devices'[d].status = ToLowerCase(TheReport.status)
                         /\ devices'[d].latency = LatencyOrZero(TheReport)
                         /\ devices'[d].last_seen = clock
       /\ (/\ ProbeStep
           /\ probed'.outcome # "throw"
           /\ probed'.id \in DOMAIN devices
           /\ HasEvent(probed'.id)
           /\ ByAgent(LastEvent(probed'.id))
           /\ LastEvent(probed'.id).timestamp < probed'.now)
              => /\ devices'[probed'.id].status = Resolved(probed'.outcome)
                 /\ devices'[probed'.id].latency = 0
                 /\ devices'[probed'.id].last_seen = probed'.now]_vars

(* C18: a device the prober has just written a status change to has        *)
(* latency 0 in the store.                                                 *)
C18_ProberWriteZeroesLatency ==
    [][\A k \in 1..Len(AddedEvents) :
           (~ByAgent(AddedEvents[k]) /\ AddedEvents[k].id \in DOMAIN devices')
               => devices'[AddedEvents[k].id].latency = 0]_vars

(* C19: a request with one valid element updates every device that has    *)
(* the element's address, decides for each of them on its own whether to   *)
(* append a log entry, and publishes one event for each; every device with *)
(* another address is unchanged and gets no log entry and no event.        *)
C19_AppliedToEveryMatch ==
    [][OneReportStep =>
           /\ DOMAIN devices' = DOMAIN devices
           /\ \A d \in DOMAIN devices :
                  LET nLogs == Cardinality({k \in 1..Len(AddedLogs) :
                                               AddedLogs[k].device_id = d})
                      nEvents == Cardinality({k \in 1..Len(AddedEvents) :
                                                 AddedEvents[k].id = d})
                      status == ToLowerCase(TheReport.status)
                      latency == LatencyOrZero(TheReport)
                  IN  IF d \in Matching(TheReport)
                      THEN /\ devices'[d].status = status
                           /\ devices'[d].latency = latency
                           /\ devices'[d].last_seen = clock
                           /\ nEvents = 1
                           /\ nLogs = IF LogWorthy(devices[d], status, latency)
                                      THEN 1 ELSE 0
                      ELSE /\ devices'[d] = devices[d]
                           /\ nEvents = 0
                           /\ nLogs = 0]_vars

\* one element was applied to devices 1 and 5, which share its address: only
\* device 5 changed status and was logged; device 4 is as seeded
C19_Witness ==
    /\ request.n = 1
    /\ request.code = 200
    /\ request.body.elems = <<[ip |-> "192.168.1.1", status |-> "online"]>>
    /\ 5 \in DOMAIN devices
    /\ devices[1].last_seen = clock
    /\ devices[5].last_seen = clock
    /\ devices[5].status = "online"
    /\ Len(events) = 2
    /\ Len(logs) = 1
    /\ logs[1].device_id = 5
    /\ devices[4] = SeedDevices[4]

\* events i..j hold agent reports of device d, offline at both ends and with
\* no online report of d between them
SameOutage(d, i, j) ==
    /\ i <= j
    /\ \A k \in {i, j} :
           ByAgent(events[k]) /\ events[k].id = d /\ events[k].status = "offline"
    /\ \A k \in i..j :
           (ByAgent(events[k]) /\ events[k].id = d) => events[k].status # "online"

FirstOfOutage(d, i) == \A h \in 1..(i - 1) : ~SameOutage(d, h, i)

(* C20: over consecutive offline agent reports of a device with no online  *)
(* report between them, downtime_start is the timestamp of the first of    *)
(* these reports: every one of them publishes it, and the store holds it   *)
(* after the last.                                                         *)
C20_DowntimeKept ==
    \A d \in EverIds : \A i, j \in 1..Len(events) :
        (SameOutage(d, i, j) /\ FirstOfOutage(d, i))
            => /\ events[j].downtime_start = events[i].timestamp
               /\ (/\ d \in DOMAIN devices
                   /\ \A k \in (j + 1)..Len(events) :
                          ~(ByAgent(events[k]) /\ events[k].id = d))
                      => devices[d].downtime_start = events[i].timestamp

\* device 1 was reported offline twice, at different times
C20_Witness ==
    \E i, j \in 1..Len(events) :
        /\ SameOutage(1, i, j)
        /\ FirstOfOutage(1, i)
        /\ events[i].timestamp < events[j].timestamp
        /\ 1 \in DOMAIN devices
        /\ devices[1].last_seen = events[j].timestamp
        /\ devices[1].downtime_start = events[i].timestamp

\* this step was made by the engine: an agent request, a timer tick or a
\* settled probe
EngineStep == AgentStep \/ ProbeStep \/ Tick

\* the immutable part of a device row
Identity(row) ==
    [id |-> row.id, name |-> row.name, ip |-> row.ip, type |-> row.type,
     location |-> row.location]

(* C21: in every reachable state the device_id of every log entry is the   *)
(* id of a device in the store: a deletion takes the device's entries with *)
(* it, and nothing appends an entry for it afterwards, not even a prober   *)
(* cycle whose snapshot still holds the device.                            *)
C21_LogsOfStoredDevices ==
    \A k \in 1..Len(logs) : logs[k].device_id \in DOMAIN devices

\* device 1 was logged by an agent report and then deleted while a cycle
\* awaited its probe; the probe settled not alive and no entry was appended
C21_Witness ==
    /\ request.n = 1
    /\ probed.n = 1
    /\ probed.id = 1
    /\ probed.outcome = "dead"
    /\ 1 \notin DOMAIN devices
    /\ nextLogId = 2
    /\ logs = <<>>

(* C22: the log is append-only: an entry whose device is still in the      *)
(* store after a step is still in the log, unchanged and in the same       *)
(* order, and a step of the agent path or of the prober leaves the old     *)
(* entries as a prefix of the log.                                         *)
C22_AppendOnly ==
    [][/\ \A k \in 1..Len(logs) :
              logs[k].device_id \in DOMAIN devices'
                  => \E j \in 1..Len(logs') : logs'[j] = logs[k]
       /\ \A i, j \in 1..Len(logs') :
              (i < j) => logs'[i].id < logs'[j].id
       /\ EngineStep =>
              /\ Len(logs') >= Len(logs)
              /\ SubSeq(logs', 1, Len(logs)) = logs]_vars

\* devices 1 and 5 were logged by one report; device 1 was deleted and the
\* entry of device 5 is still there
C22_Witness ==
    /\ 1 \notin DOMAIN devices
    /\ 5 \in DOMAIN devices
    /\ nextLogId = 3
    /\ Len(logs) = 1
    /\ logs[1].id = 2
    /\ logs[1].device_id = 5

(* C23: a step of the agent path or of the prober adds no device, removes  *)
(* none, and leaves the id, name, address, category and location of every  *)
(* device as they were.                                                    *)
C23_EngineKeepsIdentity ==
    [][EngineStep =>
           /\ DOMAIN devices' = DOMAIN devices
           /\ \A d \in DOMAIN devices :
                  Identity(devices'[d]) = Identity(devices[d])]_vars

\* an agent report wrote device 1 and a prober cycle wrote device 4; the
\* four seed rows are there with the identity they were seeded with
C23_Witness ==
    /\ DOMAIN devices = 1..4
    /\ request.n = 1
    /\ devices[1].last_seen # NULL
    /\ probed.n > 0
    /\ probed.id = 4
    /\ devices[4].status = "online"
    /\ devices[4].last_seen = probed.now
    /\ \A d \in 1..4 : Identity(devices[d]) = Identity(SeedDevices[d])

(* C24: in every reachable state the status of every device is online,     *)
(* offline or unknown, whatever status strings the agents have reported.   *)
C24_StatusInClosedSet ==
    \A d \in DOMAIN devices :
        devices[d].status \in {"online", "offline", "unknown"}

(* C25: in every reachable state the latency of every device and of every  *)
(* log entry is a non-negative integer, whatever latency the agents have   *)
(* reported.                                                               *)
C25_LatencyNonNegative ==
    /\ \A d \in DOMAIN devices : devices[d].latency \in Nat
    /\ \A k \in 1..Len(logs) : logs[k].latency \in Nat

\* status strings that differ only in the case of their letters
CasePairs == {<<"OFFLINE", "offline">>, <<"Online", "online">>}

\* a request with the one element r
Single(r) == [kind |-> "array", elems |-> <<r>>]

(* C26: in every reachable state, two reports for the same address that    *)
(* differ only in the case of the status string have the same effect: the  *)
(* same rows written (status, downtime_start), the same log entries and    *)
(* the same events, with the same answer.                                  *)
C26_CaseIgnored ==
    LET st == Store
    IN  \A p \in CasePairs : \A ip \in Addresses :
            /\ HandleReport(st, Single([ip |-> ip, status |-> p[1]]), clock)
                   = HandleReport(st, Single([ip |-> ip, status |-> p[2]]), clock)
            /\ HandleReport(st, Single([ip |-> ip, status |-> p[1],
                                        latency |-> LatencyThreshold + 1]), clock)
                   = HandleReport(st, Single([ip |-> ip, status |-> p[2],
                                              latency |-> LatencyThreshold + 1]),
                                  clock)

\* a report with status OFFLINE set device 1 offline, started its downtime,
\* and was logged and published as offline
C26_Witness ==
    /\ request.n = 1
    /\ request.body.elems = <<[ip |-> "192.168.1.1", status |-> "OFFLINE"]>>
    /\ 1 \in DOMAIN devices
    /\ devices[1].status = "offline"
    /\ devices[1].downtime_start = devices[1].last_seen
    /\ Len(logs) = 1
    /\ logs[1].status = "offline"
    /\ Len(events) = 1
    /\ events[1].status = "offline"

\* this step answered a log query
QueryStep == reply'.n = reply.n + 1

\* the log entries of a device
LogsOf(d) == {logs[k] : k \in {k \in 1..Len(logs) : logs[k].device_id = d}}

(* C27: the answer to a log query holds only entries of the requested      *)
(* device, each once, at most 50 of them and as many as the device has up  *)
(* to 50, none older than an entry left out, ordered from the newest       *)
(* timestamp to the oldest, and entries of equal timestamp are ordered by  *)
(* their ids (all ascending or all descending).                            *)
C27_NewestFirstTiesById ==
    [][QueryStep =>
           LET rows == reply'.rows
               of == LogsOf(reply'.deviceId)
               returned == {rows[k] : k \in 1..Len(rows)}
               ties == {p \in (1..Len(rows)) \X (1..Len(rows)) :
                           p[1] < p[2] /\ rows[p[1]].timestamp = rows[p[2]].timestamp}
           IN  /\ returned \subseteq of
               /\ Cardinality(returned) = Len(rows)
               /\ Len(rows) <= LogLimit
               /\ Len(rows) = Cardinality(of) \/ Len(rows) = LogLimit
               /\ \A x \in of \ returned : \A y \in returned :
                      x.timestamp <= y.timestamp
               /\ \A i, j \in 1..Len(rows) :
                      (i < j) => rows[i].timestamp >= rows[j].timestamp
               /\ \/ \A p \in ties : rows[p[1]].id < rows[p[2]].id
                  \/ \A p \in ties : rows[p[1]].id > rows[p[2]].id]_vars

C29_LastSeenNeverDecreases ==
    [][\A d \in DOMAIN devices \cap DOMAIN devices' :
           devices'[d].last_seen >= devices[d].last_seen]_vars

(* C30: in every reachable state, two log entries of a device with no      *)
(* entry of that device between them do not record the same status with    *)
(* latencies 50 ms or less apart.                                          *)
C30_NoDuplicateLogs ==
    \A i, j \in 1..Len(logs) :
        (/\ i < j
         /\ logs[i].device_id = logs[j].device_id
         /\ \A k \in (i + 1)..(j - 1) : logs[k].device_id # logs[i].device_id)
            => ~(/\ logs[i].status = logs[j].status
                 /\ Abs(logs[i].latency - logs[j].latency) <= LatencyThreshold)

(* C31: in every reachable state, for every device that has a log entry,   *)
(* an entry the log query can return first for it (one with the greatest   *)
(* timestamp) records the status the device has.                           *)
C31_NewestLogIsCurrentStatus ==
    \A d \in DOMAIN devices :
        LogsOf(d) # {} =>
            \E rows \in SelectLogs(logs, d) : rows[1].status = devices[d].status

(* C32: a request the handler answers with 500 changes no device, appends  *)
(* no log entry and publishes no event.                                    *)
C32_ErrorLeavesNoEffect ==
    [][(AgentStep /\ request'.code = 500) =>
           /\ devices' = devices
           /\ logs' = logs
           /\ events' = events]_vars

AddedWrites == SubSeq(writes', Len(writes) + 1, Len(writes'))

(* C33: the step that handles a request makes all the writes of that       *)
(* request and no other: every row written and every event published in   *)
(* it is the agent path's, for a device with the address of a valid        *)
(* element of the request and stamped with the time of the request; no     *)
(* probe settles, no cycle moves and no device is created or deleted in    *)
(* it, also while a cycle is suspended in a probe.                         *)
C33_BatchIsOneStep ==
    [][AgentStep =>
           /\ cycles' = cycles
           /\ probed' = probed
           /\ nextId' = nextId
           /\ DOMAIN devices' = DOMAIN devices
           /\ Len(AddedWrites) = Len(AddedEvents)
           /\ \A k \in 1..Len(AddedEvents) :
                  /\ ByAgent(AddedEvents[k])
                  /\ AddedWrites[k] = WriteOf(AddedEvents[k])
                  /\ AddedWrites[k].timestamp = clock
                  /\ \E j \in 1..Len(request'.body.elems) :
                         LET r == request'.body.elems[j]
                         IN  /\ ~SkipReport(r)
                             /\ devices[AddedWrites[k].id].ip = r.ip
                             /\ AddedWrites[k].status = ToLowerCase(r.status)]_vars

\* a request with two elements wrote device 1 twice while a cycle was
\* suspended in the probe of device 1
C33_Witness ==
    /\ cycles # <<>>
    /\ Head(cycles[1].devices).id = 1
    /\ probed.n = 0
    /\ request.n = 1
    /\ Len(request.body.elems) = 2
    /\ Len(writes) = 2
    /\ writes[1].id = 1 /\ writes[1].status = "offline"
    /\ writes[2].id = 1 /\ writes[2].status = "online"

\* a prober write of device d is on record whose freshness window holds `now`
RecordedByProber(d, now) ==
    \E k \in 1..Len(events) :
        /\ ~ByAgent(events[k])
        /\ events[k].id = d
        /\ now < events[k].timestamp + FreshnessWindow

(* C34: with simulation off and no agent request, once the prober has      *)
(* recorded a status change of a device in a cycle started at T, no cycle  *)
(* started before T + 600 s comes to probe that device and no such cycle   *)
(* writes it.                                                              *)
C34_OwnWriteDefersProbe ==
    [][(request'.n = 0 /\ ~IsSimulation /\ settings' = settings) =>
           /\ \A c \in Reaching :
                  ~RecordedByProber(Head(cycles'[c].devices).id, cycles'[c].now)
           /\ (ProbeStep /\ writes' # writes) =>
                  ~RecordedByProber(probed'.id, probed'.now)]_vars

---------------------------------------------------------------------------
(* The dashboard's subscriber, src/src/App.tsx lines 188-220 *)

\* what JavaScript reads from a property the payload does not have
Undefined == -1

Property(update, name) ==
    IF name \in DOMAIN update THEN update[name] ELSE Undefined

\* lines 208-216: setDevices(prev => prev.map(d => d.id === update.id ? ... : d))
OnDeviceUpdate(prev, update) ==
    [k \in DOMAIN prev |->
        IF prev[k].id = update.id
        THEN [prev[k] EXCEPT !.status = update.status,
                             !.latency = Property(update, "latency"),
                             !.downtime_start = Property(update, "downtime_start"),
                             !.last_seen = update.timestamp]
        ELSE prev[k]]

\* the list after the handler has run for every event of `history`, in order
RECURSIVE Subscriber(_, _)
Subscriber(prev, history) ==
    IF history = <<>> THEN prev
    ELSE Subscriber(OnDeviceUpdate(prev, Head(history)), Tail(history))

(* C35: a subscriber that loaded the device list at the start and applied  *)
(* every event as the dashboard does holds, for each device of its list    *)
(* that is still stored and has had an event, the status, latency,         *)
(* downtime_start and last_seen the store holds.                           *)
C35_SubscriberHoldsStoredValues ==
    LET view == Subscriber(SeedDevices, events)
    IN  \A k \in DOMAIN view :
            LET d == view[k].id
            IN  (d \in DOMAIN devices /\ HasEvent(d)) =>
                    /\ view[k].status = devices[d].status
                    /\ view[k].latency = devices[d].latency
                    /\ view[k].downtime_start = devices[d].downtime_start
                    /\ view[k].last_seen = devices[d].last_seen

\* the log entry of device d appended last
LastLog(d) == CHOOSE l \in LogsOf(d) : \A m \in LogsOf(d) : m.id <= l.id

(* C36: for every device that has a log entry, the latency stored on the   *)
(* device is at most 50 ms away from the latency of the entry appended     *)
(* last for it.                                                            *)
C36_LatencyNearLastLog ==
    \A d \in DOMAIN devices :
        LogsOf(d) # {} =>
            Abs(devices[d].latency - LastLog(d).latency) <= LatencyThreshold

\* the entries appended for device d in this step
AddedLogsOf(d) == {k \in 1..Len(AddedLogs) : AddedLogs[k].device_id = d}

(* C36 as the code has it: a step that handles a request with one valid    *)
(* element, settles a probe or runs a simulated cycle, and appends no log  *)
(* entry for a device, changes the latency stored on that device by at     *)
(* most 50 ms; an entry the agent path appends records the latency it      *)
(* stored.  The comparison is with the latency stored before the write,    *)
(* not with the latency of the entry appended last.                        *)
C36_UnloggedChangeIsSmall ==
    [][(OneReportStep \/ ProbeStep \/ Tick) =>
           \A d \in DOMAIN devices \cap DOMAIN devices' :
               /\ AddedLogsOf(d) = {} =>
                      Abs(devices'[d].latency - devices[d].latency) <= LatencyThreshold
               /\ OneReportStep =>
                      \A k \in AddedLogsOf(d) :
                          AddedLogs[k].latency = devices'[d].latency]_vars

\* agent requests alone have moved the latency of device 1 more than the
\* threshold away from its last entry, the last of them without an entry
C36_Witness ==
    /\ probed.n = 0
    /\ request.n = 3
    /\ Len(request.body.elems) = 1
    /\ 1 \in DOMAIN devices
    /\ Len(logs) = 1
    /\ logs[1].device_id = 1
    /\ Abs(devices[1].latency - logs[1].latency) > LatencyThreshold

\* this step handled a list with two valid elements for one address
TwoReportStep ==
    /\ ListStep
    /\ Len(ValidOf(request'.body.elems)) = 2
    /\ ValidOf(request'.body.elems)[1].ip = ValidOf(request'.body.elems)[2].ip

\* status and latency of the entries of device d among `entries`, in order
RECURSIVE EntriesOf(_, _)
EntriesOf(entries, d) ==
    IF entries = <<>> THEN <<>>
    ELSE (IF Head(entries).device_id = d
          THEN <<[status |-> Head(entries).status, latency |-> Head(entries).latency]>>
          ELSE <<>>) \o EntriesOf(Tail(entries), d)

(* C37: a request with two valid elements for the same address applies     *)
(* them in the order of the list: for each device with that address the    *)
(* first element is logged if it is log-worthy against the device as it    *)
(* was, the second if it is log-worthy against the status and latency the  *)
(* first one left, the two events come in that order, and the device ends  *)
(* with the second element's status and latency.                           *)
C37_AppliedInBatchOrder ==
    [][TwoReportStep =>
           LET first == ValidOf(request'.body.elems)[1]
               second == ValidOf(request'.body.elems)[2]
               left == [status |-> ToLowerCase(first.status),
                        latency |-> LatencyOrZero(first)]
               last == [status |-> ToLowerCase(second.status),
                        latency |-> LatencyOrZero(second)]
           IN  \A d \in Matching(first) :
                   /\ devices'[d].status = last.status
                   /\ devices'[d].latency = last.latency
                   /\ EntriesOf(AddedLogs, d) =
                          (IF LogWorthy(devices[d], left.status, left.latency)
                           THEN <<left>> ELSE <<>>)
                          \o (IF LogWorthy(left, last.status, last.latency)
                              THEN <<last>> ELSE <<>>)
                   /\ Len(OfDevice(AddedEvents, d)) = 2
                   /\ OfDevice(AddedEvents, d)[1].status = left.status
                   /\ OfDevice(AddedEvents, d)[1].latency = left.latency
                   /\ OfDevice(AddedEvents, d)[2].status = last.status
                   /\ OfDevice(AddedEvents, d)[2].latency = last.latency]_vars

\* device 1 was online with latency 51 when the list (offline 50, online 51)
\* came: the second element is logged only because the first one was applied
C37_Witness ==
    /\ request.n = 2
    /\ probed.n = 0
    /\ Len(request.body.elems) = 2
    /\ Len(ValidOf(request.body.elems)) = 2
    /\ Len(logs) = 3
    /\ logs[1].status = "online" /\ logs[1].latency = 51
    /\ logs[2].status = "offline" /\ logs[2].latency = 50
    /\ logs[3].status = "online" /\ logs[3].latency = 51
    /\ 1 \in DOMAIN devices
    /\ devices[1].status = "online" /\ devices[1].latency = 51
=============================================================================
